---- MODULE Spec2Model ----
(***************************************************************************)
(* Model of the report-tree transformer of QBO-ToProcess:                  *)
(*   QBOService.inject_missing_accounts  (merge of the chart of accounts)  *)
(*   QBOService.parse_report_to_rows     (flattening with row/column max)  *)
(*                                                                         *)
(* Python dicts are modelled as functions over string keys, so that        *)
(* `"Rows" in row`, `row.get(k, default)` and `row.pop(k)` keep their      *)
(* meaning.  Python strings that are lower-cased, compared or searched     *)
(* are sequences of code points; identifiers that are only tested for      *)
(* equality (ids, group labels, account types, policy tokens) are strings. *)
(***************************************************************************)
EXTENDS Integers, Sequences, FiniteSets, TLC

(* ---------------------------------------------------------------------- *)
(* Python dict and str primitives                                          *)
(* ---------------------------------------------------------------------- *)

\* {} : the empty dict
EmptyDict == <<>>

\* k in d
Has(d, k) == k \in DOMAIN d

\* d.get(k, default)
Get(d, k, default) == IF k \in DOMAIN d THEN d[k] ELSE default

\* d with d[k] = v assigned
Put(d, k, v) == (k :> v) @@ d

\* d after d.pop(k)
Pop(d, k) == [x \in (DOMAIN d) \ {k} |-> d[x]]

\* truth value of a dict or list: non-empty
Truthy(d) == DOMAIN d # {}

\* str.lower() on code points: 'A'..'Z' (65..90) map to 'a'..'z'
Lower(s) == [i \in DOMAIN s |-> IF s[i] >= 65 /\ s[i] <= 90 THEN s[i] + 32 ELSE s[i]]

\* a > b for Python strings: lexicographic by code point, a proper prefix is smaller
RECURSIVE StrGT(_, _)
StrGT(a, b) ==
    IF a = <<>> THEN FALSE
    ELSE IF b = <<>> THEN TRUE
    ELSE IF a[1] # b[1] THEN a[1] > b[1]
    ELSE StrGT(Tail(a), Tail(b))

\* the literal "total"
total_lc == <<116, 111, 116, 97, 108>>

\* "total" in s.lower()
ContainsTotal(s) ==
    \E i \in 1..(Len(s) - 4) : SubSeq(Lower(s), i, i + 4) = total_lc

\* c.get("value", "")
CellValue(c) == Get(c, "value", <<>>)

\* c.get("id") as a truth value, and c.get("id") == acct_id
CellHasId(c) == Has(c, "id") /\ c["id"] # ""
CellIdIs(c, acct_id) == Has(c, "id") /\ c["id"] = acct_id

\* [c.get("value", "") for c in cols]
RowValues(cols) == [i \in DOMAIN cols |-> CellValue(cols[i])]

\* row_data.get("Rows", {}).get("Row", [])
SubRows(row) == Get(Get(row, "Rows", EmptyDict), "Row", <<>>)

\* row.get("Header", {}).get("ColData", []) and the same for Summary
HeaderCols(row) == Get(Get(row, "Header", EmptyDict), "ColData", <<>>)
SummaryCols(row) == Get(Get(row, "Summary", EmptyDict), "ColData", <<>>)

(* ---------------------------------------------------------------------- *)
(* parse_report_to_rows                                                    *)
(* ---------------------------------------------------------------------- *)

\* mutant of IsTotalRow: the first cell of the node's Header counts as well
IsTotalRow_HeaderToo(row_data) ==
    \/ Truthy(Get(row_data, "ColData", <<>>))
          /\ ContainsTotal(CellValue(Get(row_data, "ColData", <<>>)[1]))
    \/ Truthy(Get(Get(row_data, "Header", EmptyDict), "ColData", <<>>))
          /\ ContainsTotal(CellValue(Get(Get(row_data, "Header", EmptyDict), "ColData", <<>>)[1]))

\* is_total_row: only the node's own ColData is looked at
IsTotalRow(row_data) ==
    LET col_data == Get(row_data, "ColData", <<>>)
    IN  Truthy(col_data) /\ ContainsTotal(CellValue(col_data[1]))

\* mutant of SummaryPart: with "-T" every summary is skipped, total or not
SummaryPart_SkipsEverySummary(row_data, row_max) ==
    LET summary_row == RowValues(SummaryCols(row_data))
    IN  IF Truthy(Get(row_data, "Summary", EmptyDict)) /\ Truthy(SummaryCols(row_data))
        THEN IF row_max = "-T" THEN <<>> ELSE <<summary_row>>
        ELSE <<>>

\* the summary part of process_row_data: the rows appended for the Summary
SummaryPart(row_data, row_max) ==
    LET summary_row == RowValues(SummaryCols(row_data))
    IN  IF Truthy(Get(row_data, "Summary", EmptyDict)) /\ Truthy(SummaryCols(row_data))
        THEN IF ContainsTotal(summary_row[1])
             THEN IF row_max = "-T" THEN <<>> ELSE <<summary_row>>
             ELSE <<summary_row>>
        ELSE <<>>

\* the header row and the node's own row, in this order
OwnRows(row_data) ==
    LET header   == Get(row_data, "Header", EmptyDict)
        col_data == Get(row_data, "ColData", <<>>)
    IN  (IF Truthy(header) /\ Truthy(Get(header, "ColData", <<>>))
         THEN <<RowValues(Get(header, "ColData", <<>>))>> ELSE <<>>)
        \o (IF Truthy(col_data) THEN <<RowValues(col_data)>> ELSE <<>>)

RECURSIVE process_row_data(_, _)
RECURSIVE ProcessSubRows(_, _)
\* mutant of ProcessSubRows: with "T" the loop ends after a sub-row that ended
\* on its total summary
ProcessSubRows_StopsAfterTotal(sub_rows, row_max) ==
    IF sub_rows = <<>> THEN <<>>
    ELSE process_row_data(Head(sub_rows), row_max)
         \o (IF /\ row_max = "T"
                /\ ~IsTotalRow(Head(sub_rows))
                /\ Truthy(SummaryCols(Head(sub_rows)))
                /\ ContainsTotal(CellValue(SummaryCols(Head(sub_rows))[1]))
             THEN <<>>
             ELSE ProcessSubRows(Tail(sub_rows), row_max))

\* for sub_row in sub_rows: result.extend(process_row_data(sub_row))
ProcessSubRows(sub_rows, row_max) ==
    IF sub_rows = <<>> THEN <<>>
    ELSE process_row_data(Head(sub_rows), row_max) \o ProcessSubRows(Tail(sub_rows), row_max)

\* mutant of process_row_data: the summary is appended before the sub-rows
process_row_data_SummaryFirst(row_data, row_max) ==
    IF row_max = "-T" /\ IsTotalRow(row_data) THEN <<>>
    ELSE IF row_max = "T" /\ IsTotalRow(row_data) THEN OwnRows(row_data)
    ELSE OwnRows(row_data)
         \o SummaryPart(row_data, row_max)
         \o ProcessSubRows(SubRows(row_data), row_max)

process_row_data(row_data, row_max) ==
    IF row_max = "-T" /\ IsTotalRow(row_data) THEN <<>>
    ELSE IF row_max = "T" /\ IsTotalRow(row_data) THEN OwnRows(row_data)
    ELSE OwnRows(row_data)
         \o ProcessSubRows(SubRows(row_data), row_max)
         \o SummaryPart(row_data, row_max)

\* mutant of TotalColIdx: the loop without its break finds the last "total" header
TotalColIdx_Last(headers) ==
    IF \E i \in DOMAIN headers : ContainsTotal(headers[i])
    THEN CHOOSE i \in DOMAIN headers :
            /\ ContainsTotal(headers[i])
            /\ \A j \in (i + 1)..Len(headers) : ~ContainsTotal(headers[j])
    ELSE 0

\* index (1-based) of the first header containing "total", 0 when there is none
TotalColIdx(headers) ==
    IF \E i \in DOMAIN headers : ContainsTotal(headers[i])
    THEN CHOOSE i \in DOMAIN headers :
            /\ ContainsTotal(headers[i])
            /\ \A j \in 1..(i - 1) : ~ContainsTotal(headers[j])
    ELSE 0

\* Python slice s[:n]
Slice(s, n) == SubSeq(s, 1, IF n < Len(s) THEN n ELSE Len(s))

\* mutant of ApplyColMax: rows that do not reach the cut are dropped
ApplyColMax_DropsShortRows(rows, headers, col_max) ==
    LET k   == TotalColIdx(headers)
        cut == IF col_max = "-T" THEN k - 1 ELSE k
    IN  IF col_max \in {"-T", "T"} /\ Truthy(headers) /\ k # 0
        THEN [rows    |-> [i \in 1..Len(SelectSeq(rows, LAMBDA r : Len(r) >= cut)) |->
                              Slice(SelectSeq(rows, LAMBDA r : Len(r) >= cut)[i], cut)],
              headers |-> Slice(headers, cut)]
        ELSE [rows |-> rows, headers |-> headers]

\* the column cut applied to headers and rows (lines 484-501)
ApplyColMax(rows, headers, col_max) ==
    LET k == TotalColIdx(headers)
    IN  IF col_max \in {"-T", "T"} /\ Truthy(headers) /\ k # 0
        THEN IF col_max = "-T"
             THEN [rows |-> [i \in DOMAIN rows |-> Slice(rows[i], k - 1)],
                   headers |-> Slice(headers, k - 1)]
             ELSE [rows |-> [i \in DOMAIN rows |-> Slice(rows[i], k)],
                   headers |-> Slice(headers, k)]
        ELSE [rows |-> rows, headers |-> headers]

\* report_data.get("Columns", {}).get("Column", [])
ReportColumns(report_data) == Get(Get(report_data, "Columns", EmptyDict), "Column", <<>>)

\* parse_report_to_rows(report_data, row_max, col_max) -> (rows, headers)
parse_report_to_rows(report_data, row_max, col_max) ==
    IF ~Truthy(report_data) THEN [rows |-> <<>>, headers |-> <<>>]
    ELSE LET columns == ReportColumns(report_data)
             headers == [i \in DOMAIN columns |-> Get(columns[i], "ColTitle", <<>>)]
             rows    == ProcessSubRows(SubRows(report_data), row_max)
         IN  ApplyColMax(rows, headers, col_max)

(* ---------------------------------------------------------------------- *)
(* Chart of Accounts merge: inject_missing_accounts and its helpers        *)
(* ---------------------------------------------------------------------- *)

\* SECTION_ACCOUNT_TYPES: report section group -> QBO AccountType values
SECTION_ACCOUNT_TYPES ==
    [Income                  |-> {"Income"},
     CostOfGoodsSold         |-> {"Cost of Goods Sold"},
     Expenses                |-> {"Expense"},
     OtherIncome             |-> {"Other Income"},
     OtherExpenses           |-> {"Other Expense"},
     BankAccounts            |-> {"Bank"},
     AR                      |-> {"Accounts Receivable"},
     OtherCurrentAssets      |-> {"Other Current Asset"},
     FixedAssets             |-> {"Fixed Asset"},
     OtherAssets             |-> {"Other Asset"},
     AP                      |-> {"Accounts Payable"},
     CreditCards             |-> {"Credit Card"},
     OtherCurrentLiabilities |-> {"Other Current Liability"},
     LongTermLiabilities     |-> {"Long Term Liability"},
     Equity                  |-> {"Equity"}]

\* parent_id of an account: ParentRef.value when SubAccount is set, else None
\* (None and "" are both falsy; "" stands for both)
ParentId(acct) ==
    IF Get(acct, "SubAccount", FALSE)
    THEN Get(Get(acct, "ParentRef", EmptyDict), "value", "")
    ELSE ""

\* list.sort(key=lambda a: a["Name"]): stable, ascending by code point
RECURSIVE SortedInsertByName(_, _)
SortedInsertByName(sorted, a) ==
    IF sorted = <<>> THEN <<a>>
    ELSE IF StrGT(Head(sorted)["Name"], a["Name"]) THEN <<a>> \o sorted
    ELSE <<Head(sorted)>> \o SortedInsertByName(Tail(sorted), a)

RECURSIVE SortByName(_)
SortByName(accts) ==
    IF accts = <<>> THEN <<>>
    ELSE SortedInsertByName(SortByName(SubSeq(accts, 1, Len(accts) - 1)), accts[Len(accts)])

\* account_map keys
AccountIds(accounts) == {accounts[i]["Id"] : i \in DOMAIN accounts}

\* children_map: parent id -> its sub-accounts, sorted by Name
ChildrenMap(accounts) ==
    [p \in AccountIds(accounts) |->
        SortByName(SelectSeq(accounts, LAMBDA a : ParentId(a) # "" /\ ParentId(a) = p))]

\* mutant of CollectPresentIds: the ids on section headers are not collected
RECURSIVE CollectPresentIds_SkipsHeaders(_)
CollectPresentIds_SkipsHeaders(rows) ==
    IF rows = <<>> THEN {}
    ELSE LET row      == Head(rows)
             col_data == Get(row, "ColData", <<>>)
         IN  (IF Truthy(col_data) /\ CellHasId(col_data[1]) THEN {col_data[1]["id"]} ELSE {})
             \cup CollectPresentIds_SkipsHeaders(SubRows(row))
             \cup CollectPresentIds_SkipsHeaders(Tail(rows))

\* _collect_present_ids
RECURSIVE CollectPresentIds(_)
CollectPresentIds(rows) ==
    IF rows = <<>> THEN {}
    ELSE LET row         == Head(rows)
             col_data    == Get(row, "ColData", <<>>)
             header_cols == HeaderCols(row)
         IN  (IF Truthy(col_data) /\ CellHasId(col_data[1]) THEN {col_data[1]["id"]} ELSE {})
             \cup (IF Truthy(header_cols) /\ CellHasId(header_cols[1])
                   THEN {header_cols[1]["id"]} ELSE {})
             \cup CollectPresentIds(SubRows(row))
             \cup CollectPresentIds(Tail(rows))

\* the literal "Total " of f"Total {acct_name}"
TotalPrefix == <<84, 111, 116, 97, 108, 32>>

\* _make_zero_coldata
\* mutant of MakeZeroColdata: range(num_cols) for range(num_cols - 1)
MakeZeroColdata_ExtraCell(name, account_id, num_cols) ==
    <<[value |-> name, id |-> account_id]>>
    \o [i \in 1..num_cols |-> [value |-> <<>>]]

MakeZeroColdata(name, account_id, num_cols) ==
    <<[value |-> name, id |-> account_id]>>
    \o [i \in 1..(num_cols - 1) |-> [value |-> <<>>]]

\* _get_row_name
GetRowName(row) ==
    IF Truthy(HeaderCols(row)) THEN CellValue(HeaderCols(row)[1])
    ELSE IF Truthy(Get(row, "ColData", <<>>)) THEN CellValue(row["ColData"][1])
    ELSE <<>>

\* mutant of InsertIdx: the names are compared without .lower()
InsertIdx_CaseSensitive(rows, name) ==
    IF \E i \in DOMAIN rows : StrGT(GetRowName(rows[i]), name)
    THEN (CHOOSE i \in DOMAIN rows :
            /\ StrGT(GetRowName(rows[i]), name)
            /\ \A j \in 1..(i - 1) : ~StrGT(GetRowName(rows[j]), name)) - 1
    ELSE Len(rows)

\* mutant of InsertIdx: the loop breaks at the first name that is not smaller
\* (>= for >)
InsertIdx_BeforeEqual(rows, name) ==
    IF \E i \in DOMAIN rows : ~StrGT(Lower(name), Lower(GetRowName(rows[i])))
    THEN (CHOOSE i \in DOMAIN rows :
            /\ ~StrGT(Lower(name), Lower(GetRowName(rows[i])))
            /\ \A j \in 1..(i - 1) : StrGT(Lower(name), Lower(GetRowName(rows[j])))) - 1
    ELSE Len(rows)

\* insert_idx of _insert_sorted, as a 0-based Python index
InsertIdx(rows, name) ==
    IF \E i \in DOMAIN rows : StrGT(Lower(GetRowName(rows[i])), Lower(name))
    THEN (CHOOSE i \in DOMAIN rows :
            /\ StrGT(Lower(GetRowName(rows[i])), Lower(name))
            /\ \A j \in 1..(i - 1) : ~StrGT(Lower(GetRowName(rows[j])), Lower(name))) - 1
    ELSE Len(rows)

\* mutant of InsertSorted: the new row is appended, whatever the names
InsertSorted_Appends(rows, new_row, name) == Append(rows, new_row)

\* _insert_sorted: rows.insert(insert_idx, new_row)
InsertSorted(rows, new_row, name) ==
    LET k == InsertIdx(rows, name)
    IN  SubSeq(rows, 1, k) \o <<new_row>> \o SubSeq(rows, k + 1, Len(rows))

\* the row carries acct_id on its Header or its ColData first cell (lines 709-718)
RowCarries(row, acct_id) ==
    \/ Truthy(HeaderCols(row)) /\ CellIdIs(HeaderCols(row)[1], acct_id)
    \/ Truthy(Get(row, "ColData", <<>>)) /\ CellIdIs(row["ColData"][1], acct_id)

\* index of the first row of existing_rows that carries acct_id, 0 when none
FindRow(existing_rows, acct_id) ==
    IF \E i \in DOMAIN existing_rows : RowCarries(existing_rows[i], acct_id)
    THEN CHOOSE i \in DOMAIN existing_rows :
            /\ RowCarries(existing_rows[i], acct_id)
            /\ \A j \in 1..(i - 1) : ~RowCarries(existing_rows[j], acct_id)
    ELSE 0

\* mutant of Promote: the new Header is built like that of a new Section, the
\* row's own cells are lost
Promote_ZeroHeader(row, acct_name, num_cols) ==
    Put(Put(Put(Put(Pop(row, "ColData"),
        "Header", [ColData |-> MakeZeroColdata(acct_name, row["ColData"][1]["id"], num_cols)]),
        "Rows", [Row |-> <<>>]),
        "Summary", [ColData |-> MakeZeroColdata(TotalPrefix \o acct_name, "", num_cols)]),
        "type", "Section")

\* lines 720-729: convert a Data row to a Section with sub-rows
\* (row.pop("ColData") needs the key: see PromoteRaises)
Promote(row, acct_name, num_cols) ==
    Put(Put(Put(Put(Pop(row, "ColData"),
        "Header", [ColData |-> row["ColData"]]),
        "Rows", [Row |-> <<>>]),
        "Summary", [ColData |-> MakeZeroColdata(TotalPrefix \o acct_name, "", num_cols)]),
        "type", "Section")

\* row.pop("ColData") raises KeyError: no "Rows" and no "ColData"
PromoteRaises(row) == ~Has(row, "Rows") /\ ~Has(row, "ColData")

\* lines 730-731: if "Row" not in row.get("Rows", {}): row["Rows"]["Row"] = []
EnsureRow(row) ==
    IF Has(Get(row, "Rows", EmptyDict), "Row") THEN row
    ELSE Put(row, "Rows", Put(row["Rows"], "Row", <<>>))

\* the new Section of lines 744-755, with the sub-rows injected into it
NewSection(acct_name, acct_id, sub_rows, num_cols) ==
    [Header  |-> [ColData |-> MakeZeroColdata(acct_name, acct_id, num_cols)],
     Rows    |-> [Row |-> sub_rows],
     Summary |-> [ColData |-> MakeZeroColdata(TotalPrefix \o acct_name, "", num_cols)],
     type    |-> "Section"]

\* the new Data row of lines 767-770
NewDataRow(acct_name, acct_id, num_cols) ==
    [ColData |-> MakeZeroColdata(acct_name, acct_id, num_cols), type |-> "Data"]

\* lines 720-729 on the found row: a row without "Rows" is converted
PromoteIfData(row, acct_name, num_cols) ==
    IF ~Has(row, "Rows") THEN Promote(row, acct_name, num_cols) ELSE row

\* the list with the sub-rows of the row at idx replaced by the result `sub` of the
\* recursive call (the call works on row["Rows"]["Row"] in place)
WithSubRows(existing_rows, idx, row, sub) ==
    [rows   |-> [existing_rows EXCEPT
                    ![idx] = Put(row, "Rows", Put(row["Rows"], "Row", sub.rows))],
     raised |-> sub.raised]

\* _inject_into_rows: the list after the loop, and whether an exception left it
\* frames of _inject_into_rows the interpreter allows before it raises
\* RecursionError (sys.getrecursionlimit(), 1000 frames by default)
RecursionLimit == 5

RECURSIVE inject_into_rows(_, _, _, _, _, _)

\* lines 732-738: recurse into the found row's sub-rows with the account's children
InjectFound(existing_rows, idx, row, children, children_map, present_ids, num_cols, depth) ==
    WithSubRows(existing_rows, idx, row,
                inject_into_rows(row["Rows"]["Row"], children, children_map,
                                 present_ids, num_cols, depth + 1))

\* mutant of InjectPresent: a present account with sub-accounts whose row is not
\* in the list is given a new row at the end of the list
InjectPresent_AddsWhenNotFound(existing_rows, acct, children, idx, children_map, present_ids, num_cols, depth) ==
    IF ~Truthy(children)
    THEN [rows |-> existing_rows, raised |-> FALSE]
    ELSE IF idx = 0
    THEN [rows   |-> Append(existing_rows, NewDataRow(acct["Name"], acct["Id"], num_cols)),
          raised |-> FALSE]
    ELSE IF PromoteRaises(existing_rows[idx])
    THEN [rows |-> existing_rows, raised |-> TRUE]
    ELSE InjectFound(existing_rows, idx,
                     EnsureRow(PromoteIfData(existing_rows[idx], acct["Name"], num_cols)),
                     children, children_map, present_ids, num_cols, depth)

\* lines 704-739: the account is in present_ids
InjectPresent(existing_rows, acct, children, idx, children_map, present_ids, num_cols, depth) ==
    IF ~Truthy(children) \/ idx = 0
    THEN [rows |-> existing_rows, raised |-> FALSE]
    ELSE IF PromoteRaises(existing_rows[idx])
    THEN [rows |-> existing_rows, raised |-> TRUE]
    ELSE InjectFound(existing_rows, idx,
                     EnsureRow(PromoteIfData(existing_rows[idx], acct["Name"], num_cols)),
                     children, children_map, present_ids, num_cols, depth)

\* line 764: the new Section, its sub-rows injected, is inserted
InsertNewSection(existing_rows, acct, sub, num_cols) ==
    IF sub.raised
    THEN [rows |-> existing_rows, raised |-> TRUE]
    ELSE [rows   |-> InsertSorted(existing_rows,
                         NewSection(acct["Name"], acct["Id"], sub.rows, num_cols),
                         acct["Name"]),
          raised |-> FALSE]

\* lines 740-771: the account is missing; the recursion into a new Section gets
\* the same present_ids
InjectMissing(existing_rows, acct, children, children_map, present_ids, num_cols, depth) ==
    IF Truthy(children)
    THEN InsertNewSection(existing_rows, acct,
                          inject_into_rows(<<>>, children, children_map,
                                           present_ids, num_cols, depth + 1),
                          num_cols)
    ELSE [rows   |-> InsertSorted(existing_rows,
                         NewDataRow(acct["Name"], acct["Id"], num_cols), acct["Name"]),
          raised |-> FALSE]

\* mutant of InjectAccount: present_ids is consulted only for accounts with
\* sub-accounts, an account without sub-accounts is inserted whenever it is met
InjectAccount_ReinsertsLeaves(existing_rows, acct, children_map, present_ids, num_cols, depth) ==
    IF acct["Id"] \in present_ids /\ Truthy(Get(children_map, acct["Id"], <<>>))
    THEN InjectPresent(existing_rows, acct, Get(children_map, acct["Id"], <<>>),
                       FindRow(existing_rows, acct["Id"]),
                       children_map, present_ids, num_cols, depth)
    ELSE InjectMissing(existing_rows, acct, Get(children_map, acct["Id"], <<>>),
                       children_map, present_ids, num_cols, depth)

\* one iteration of `for acct in coa_accounts`
InjectAccount(existing_rows, acct, children_map, present_ids, num_cols, depth) ==
    IF acct["Id"] \in present_ids
    THEN InjectPresent(existing_rows, acct, Get(children_map, acct["Id"], <<>>),
                       FindRow(existing_rows, acct["Id"]),
                       children_map, present_ids, num_cols, depth)
    ELSE InjectMissing(existing_rows, acct, Get(children_map, acct["Id"], <<>>),
                       children_map, present_ids, num_cols, depth)

\* the rest of the loop after one iteration (an exception ends it)
InjectRest(step, coa_accounts, children_map, present_ids, num_cols, depth) ==
    IF step.raised THEN step
    ELSE inject_into_rows(step.rows, coa_accounts, children_map, present_ids, num_cols,
                          depth)

\* depth counts the frames of _inject_into_rows on the stack; a call beyond
\* RecursionLimit raises, and nothing catches it
inject_into_rows(existing_rows, coa_accounts, children_map, present_ids, num_cols, depth) ==
    IF depth > RecursionLimit THEN [rows |-> existing_rows, raised |-> TRUE]
    ELSE IF coa_accounts = <<>> THEN [rows |-> existing_rows, raised |-> FALSE]
    ELSE InjectRest(InjectAccount(existing_rows, Head(coa_accounts), children_map,
                                  present_ids, num_cols, depth),
                    Tail(coa_accounts), children_map, present_ids, num_cols, depth)

\* section_accounts of line 622
SectionAccounts(accounts, group) ==
    SelectSeq(accounts, LAMBDA a : a["AccountType"] \in SECTION_ACCOUNT_TYPES[group])

\* top_level of lines 626-634: accounts of the section with no parent in the section
TopLevel(section_accounts) ==
    SortByName(SelectSeq(section_accounts,
        LAMBDA a : ParentId(a) = "" \/ ParentId(a) \notin AccountIds(section_accounts)))

\* lines 636-640: ensure the section has a Rows container
EnsureRows(section) ==
    IF ~Has(section, "Rows") THEN Put(section, "Rows", [Row |-> <<>>])
    ELSE EnsureRow(section)

\* the section with its sub-rows replaced by the result `sub` of a call that
\* works on them in place
WithRows(section, sub) ==
    [row    |-> Put(section, "Rows", Put(section["Rows"], "Row", sub.rows)),
     raised |-> sub.raised]

\* lines 642-648: inject the top-level accounts into the section's rows
InjectSection(section, top_level, children_map, present_ids, num_cols) ==
    WithRows(section,
             inject_into_rows(section["Rows"]["Row"], top_level, children_map,
                              present_ids, num_cols, 1))

\* _process_sections: the list after the loop, and whether an exception left it
RECURSIVE process_sections(_, _, _, _, _)

\* one iteration of `for section in rows`
ProcessSection(section, accounts, children_map, present_ids, num_cols) ==
    IF Get(section, "group", "") \in DOMAIN SECTION_ACCOUNT_TYPES
    THEN IF Truthy(SectionAccounts(accounts, section["group"]))
         THEN InjectSection(EnsureRows(section),
                            TopLevel(SectionAccounts(accounts, section["group"])),
                            children_map, present_ids, num_cols)
         ELSE [row |-> section, raised |-> FALSE]
    ELSE IF Truthy(SubRows(section))
         THEN WithRows(section,
                       process_sections(SubRows(section), accounts, children_map,
                                        present_ids, num_cols))
         ELSE [row |-> section, raised |-> FALSE]

\* the processed first section in front of the processed rest
PrependRow(row, rest) ==
    [rows |-> <<row>> \o rest.rows, raised |-> rest.raised]

\* the rest of the loop after one iteration (an exception ends it)
ProcessRest(first, rows, accounts, children_map, present_ids, num_cols) ==
    IF first.raised
    THEN [rows |-> <<first.row>> \o rows, raised |-> TRUE]
    ELSE PrependRow(first.row,
                    process_sections(rows, accounts, children_map, present_ids, num_cols))

process_sections(rows, accounts, children_map, present_ids, num_cols) ==
    IF rows = <<>> THEN [rows |-> <<>>, raised |-> FALSE]
    ELSE ProcessRest(ProcessSection(Head(rows), accounts, children_map,
                                    present_ids, num_cols),
                     Tail(rows), accounts, children_map, present_ids, num_cols)

\* mutant of MergeSkips: the column count is not checked
MergeSkips_NoColumnCheck(report_data, accounts) ==
    \/ ~Truthy(report_data)
    \/ ~Truthy(accounts)

\* the guards of lines 572-578: the report is returned as it is
MergeSkips(report_data, accounts) ==
    \/ ~Truthy(report_data)
    \/ ~Truthy(accounts)
    \/ Len(ReportColumns(report_data)) = 0

\* the report with its top-level rows replaced by the result `sub` of
\* _process_sections, which works on them in place
WithTopRows(report_data, sub) ==
    [report |-> IF Has(Get(report_data, "Rows", EmptyDict), "Row")
                THEN Put(report_data, "Rows", Put(report_data["Rows"], "Row", sub.rows))
                ELSE report_data,
     raised |-> sub.raised]

\* inject_missing_accounts: the report after the call (it is modified in place and
\* returned), and whether the call raised
inject_missing_accounts(report_data, accounts) ==
    IF MergeSkips(report_data, accounts)
    THEN [report |-> report_data, raised |-> FALSE]
    ELSE WithTopRows(report_data,
                     process_sections(SubRows(report_data), accounts,
                                      ChildrenMap(accounts),
                                      CollectPresentIds(SubRows(report_data)),
                                      Len(ReportColumns(report_data))))

(* ---------------------------------------------------------------------- *)
(* Bounds and the input universe                                           *)
(* ---------------------------------------------------------------------- *)

\* children of a report section in the generated reports
MaxKids == 2
\* sub-rows of an account section in the generated reports
MaxSubKids == 1
\* report columns in the generated reports of InitParse
MaxCols == 3
\* calls of inject_missing_accounts on one report
MaxMerges == 2

\* row_index of the configuration: 0 (none) up to this
MaxRowIndex == 1

\* the argument `retries` of _make_request: 0 up to this (3 is its default)
MaxRetries == 3

\* account names "B", "a", "c": "a" < "B" < "c" without case, "B" < "a" < "c" with it
AcctIdSet == {"1", "2", "3"}
AcctName(id) == IF id = "1" THEN <<66>> ELSE IF id = "2" THEN <<97>> ELSE <<99>>

\* display names used by the generated reports: "H", "Total H", "TOTAL", "Net"
nHdr      == <<72>>
nTotalHdr == TotalPrefix \o nHdr
nTOTAL    == <<84, 79, 84, 65, 76>>
nNet      == <<78, 101, 116>>

\* a ColData list of `width` cells: the name cell (with its id unless id = "")
\* followed by amount cells "1", "2", ...
Cells(name, id, width) ==
    <<IF id = "" THEN [value |-> name] ELSE [value |-> name, id |-> id]>>
    \o [j \in 1..(width - 1) |-> [value |-> <<48 + j>>]]

DataNode(name, id, width) == [type |-> "Data", ColData |-> Cells(name, id, width)]

\* all sequences over S of length 0..n
SeqsUpTo(S, n) == UNION {[1..k -> S] : k \in 0..n}

\* the Data rows of the three accounts
AcctDataNodes(width) == {DataNode(AcctName(id), id, width) : id \in AcctIdSet}

\* an account section as QBO renders a parent account with sub-account activity
AcctSections(width) ==
    {[type    |-> "Section",
      Header  |-> [ColData |-> Cells(AcctName(id), id, width)],
      Rows    |-> [Row |-> kids],
      Summary |-> [ColData |-> Cells(TotalPrefix \o AcctName(id), "", width)]]
        : id \in AcctIdSet, kids \in SeqsUpTo(AcctDataNodes(width), MaxSubKids)}

\* an account section without sub-rows container
BareAcctSections(width) ==
    {[type    |-> "Section",
      Header  |-> [ColData |-> Cells(AcctName(id), id, width)],
      Summary |-> [ColData |-> Cells(TotalPrefix \o AcctName(id), "", width)]]
        : id \in AcctIdSet}

\* a group section ("BankAccounts", "Expenses", ...) with the given children
GroupSection(group, kids, width) ==
    [type    |-> "Section",
     group   |-> group,
     Header  |-> [ColData |-> Cells(nHdr, "", width)],
     Rows    |-> [Row |-> kids],
     Summary |-> [ColData |-> Cells(nTotalHdr, "", width)]]

\* a group section without sub-rows container, as QBO renders an empty group
EmptyGroupSection(group, width) ==
    [type    |-> "Section",
     group   |-> group,
     Summary |-> [ColData |-> Cells(nTotalHdr, "", width)]]

\* a section with an unmapped group that wraps group sections (as "CurrentAssets"
\* wraps "BankAccounts" in a balance sheet)
Wrapper(kids, width) ==
    [type    |-> "Section",
     group   |-> "CurrentAssets",
     Header  |-> [ColData |-> Cells(nHdr, "", width)],
     Rows    |-> [Row |-> kids],
     Summary |-> [ColData |-> Cells(nTotalHdr, "", width)]]

MappedGroups == {"BankAccounts", "Expenses"}

\* the children lists of a generated group section: account rows and at most one
\* account section, in any order
KidLists(width) ==
    {kids \in SeqsUpTo(AcctDataNodes(width) \cup AcctSections(width)
                        \cup BareAcctSections(width), MaxKids) :
        Cardinality({i \in DOMAIN kids : Has(kids[i], "Header")}) <= 1}

\* the first group section of a generated report
FirstSections(width) ==
    {GroupSection(g, kids, width) : g \in MappedGroups, kids \in KidLists(width)}

\* the optional second group section
SecondSections(width) == {EmptyGroupSection(g, width) : g \in MappedGroups}

\* Columns of a report with the given titles
Report(titles, top_rows) ==
    [Columns |-> [Column |-> [i \in DOMAIN titles |-> [ColTitle |-> titles[i]]]],
     Rows    |-> [Row |-> top_rows]]

\* column titles "", "Total"
nTotal    == <<84, 111, 116, 97, 108>>
TwoTitles == <<<<>>, nTotal>>

\* a group section with at most one account row
SmallSections(width) ==
    {GroupSection(g, kids, width) :
        g \in MappedGroups, kids \in SeqsUpTo(AcctDataNodes(width), 1)}

\* a group section whose only child is another group section
NestedSections(width) ==
    {GroupSection(g, <<s1>>, width) : g \in MappedGroups, s1 \in SmallSections(width)}

\* reports whose rows, "A" and "b" without id, have the names of accounts in the
\* other case
TieReports ==
    {Report(TwoTitles, <<GroupSection("BankAccounts", kids, 2)>>) :
        kids \in SeqsUpTo({DataNode(<<65>>, "", 2), DataNode(<<98>>, "", 2)}, MaxKids)}

MergeReports ==
    {Report(TwoTitles, <<s1>>) : s1 \in FirstSections(2)}
    \cup {Report(TwoTitles, <<s1, s2>>) :
            s1 \in FirstSections(2), s2 \in SecondSections(2)}
    \cup {Report(TwoTitles, <<Wrapper(<<s1>>, 2)>>) : s1 \in FirstSections(2)}
    \cup {Report(TwoTitles, <<s1>>) : s1 \in NestedSections(2)}
    \cup TieReports

\* an account of the chart of accounts; parent = "" for a top-level account
Account(id, type, parent) ==
    IF parent = ""
    THEN [Id |-> id, Name |-> AcctName(id), AccountType |-> type, SubAccount |-> FALSE]
    ELSE [Id |-> id, Name |-> AcctName(id), AccountType |-> type, SubAccount |-> TRUE,
          ParentRef |-> [value |-> parent]]

\* charts of accounts in which "B" and "a" are sub-accounts of the same parent "c"
SiblingAccountLists ==
    {<<Account("1", "Bank", "3"), Account("2", t2, "3"), Account("3", "Bank", "")>> :
        t2 \in {"Bank", "Expense"}}

\* charts of accounts whose ParentRef values form a cycle, 1 -> 2 -> 1 or
\* 1 -> 2 -> 3 -> 1 (get_accounts returns whatever the query returns, and
\* nothing in inject_missing_accounts checks the hierarchy)
CyclicAccountLists ==
    {<<Account("1", t1, "2"), Account("2", t2, p[1]), Account("3", t3, p[2])>> :
        t1 \in {"Bank", "Expense"}, t2 \in {"Bank", "Expense"}, t3 \in {"Bank", "Expense"},
        p \in {<<"1", "">>, <<"1", "1">>, <<"3", "1">>}}

\* the chart of accounts: three accounts of the types of two report groups; the
\* hierarchy is a forest (QBO's is)
AccountLists ==
    {<<Account("1", "Bank", ""), Account("2", t2, p2), Account("3", t3, p3)>> :
        t2 \in {"Bank", "Expense"}, t3 \in {"Bank", "Expense"},
        p2 \in {"", "1"}, p3 \in {"", "1", "2"}}
    \cup SiblingAccountLists

\* reports on which the merge returns at once: no report, or no columns
EmptyishReports ==
    {EmptyDict} \cup {Report(<<>>, <<s1>>) : s1 \in SmallSections(1)}

\* a section of the reports that are flattened: Header, Rows and Summary are optional
MkSection(hasHeader, hname, hasGroup, kids, hasSummary, sname, width) ==
    (IF hasHeader THEN [Header |-> [ColData |-> Cells(hname, "", width)]] ELSE EmptyDict)
    @@ (IF hasGroup THEN [group |-> "BankAccounts"] ELSE EmptyDict)
    @@ (IF hasSummary THEN [Summary |-> [ColData |-> Cells(sname, "", width)]]
        ELSE EmptyDict)
    @@ [type |-> "Section", Rows |-> [Row |-> kids]]

\* header and summary choices: absent, a plain title, a title containing "total"
HeaderChoices  == {<<FALSE, <<>>>>, <<TRUE, nHdr>>, <<TRUE, nTotalHdr>>}
SummaryChoices == {<<FALSE, <<>>>>, <<TRUE, nNet>>, <<TRUE, nTotalHdr>>}

\* rows without an account id: "a" and "TOTAL"
PlainRows(width) == {DataNode(<<97>>, "", width), DataNode(nTOTAL, "", width)}

\* rows "TOTAL" that also carry what only a Section carries: a header, a summary,
\* sub-rows (the code reads every key of every node, whatever its type)
OddRows(width) ==
    {DataNode(nTOTAL, "", width) @@ [Header |-> [ColData |-> Cells(nHdr, "", width)]],
     DataNode(nTOTAL, "", width) @@ [Summary |-> [ColData |-> Cells(nNet, "", width)]],
     DataNode(nTOTAL, "", width) @@ [Rows |-> [Row |-> <<DataNode(<<97>>, "", width)>>]]}

InnerSections(width) ==
    {MkSection(h[1], h[2], FALSE, <<>>, s[1], s[2], width) :
        h \in HeaderChoices, s \in SummaryChoices}

OuterSections(width) ==
    {MkSection(h[1], h[2], TRUE, kids, s[1], s[2], width) :
        h \in HeaderChoices, s \in SummaryChoices,
        kids \in SeqsUpTo(PlainRows(width) \cup OddRows(width) \cup InnerSections(width),
                          MaxKids)}

\* reports whose rows exercise the row limit
RowReports ==
    {Report(TwoTitles, <<s1>> \o tail) :
        s1 \in OuterSections(2), tail \in SeqsUpTo(PlainRows(2), 1)}

\* column titles "J", "Total", "TOTAL"
TitlePool == {<<74>>, nTotal, nTOTAL}

\* reports whose columns exercise the column limit: rows of `width` cells under
\* up to MaxCols columns
ColReports ==
    {Report(titles, <<GroupSection("BankAccounts", <<DataNode(<<97>>, "", width)>>, width)>>) :
        titles \in SeqsUpTo(TitlePool, MaxCols), width \in 1..MaxCols}

\* the chart of accounts of the flattened reports: three bank accounts
ParseAccounts == <<Account("1", "Bank", ""), Account("2", "Bank", ""), Account("3", "Bank", "2")>>

Policies == {"*", "T", "-T"}

(* ---------------------------------------------------------------------- *)
(* The state machine                                                       *)
(* ---------------------------------------------------------------------- *)

VARIABLES
    report_data,   \* the report dict the caller holds (merged in place)
    accounts,      \* the chart of accounts passed to inject_missing_accounts
    row_max,       \* the row limit of the report's configuration
    col_max,       \* the column limit of the report's configuration
    merges,        \* calls of inject_missing_accounts made so far
    orig_report,   \* history: report_data as the caller first passed it
    prev_report,   \* history: report_data as it was before the latest merge
    raised,        \* the latest merge left by an exception
    parsed,        \* parse_report_to_rows has returned
    out_rows,      \* its rows
    out_headers,   \* its headers
    pr_pc,         \* process_report: the statement it is at
    pr_cfg,        \* process_report: the configuration of the ToProcess row
    pr_calls,      \* history: the calls process_report made to its services
    pr_result,     \* process_report: the dict it returned
    rq_pc,         \* _make_request: the statement it is at
    rq_retries,    \* _make_request: its argument `retries`
    rq_attempt,    \* _make_request: the loop variable `attempt`
    rq_token,      \* the state of self._token_data
    rq_log,        \* history: token checks, refreshes and HTTP responses of the call
    rq_result      \* _make_request: what it returned

prVars == <<pr_pc, pr_cfg, pr_calls, pr_result>>

rqVars == <<rq_pc, rq_retries, rq_attempt, rq_token, rq_log, rq_result>>

vars == <<report_data, accounts, row_max, col_max, merges, orig_report, prev_report, raised,
          parsed, out_rows, out_headers, prVars, rqVars>>

\* no call of process_report is under way
PrIdle ==
    /\ pr_pc = "idle"
    /\ pr_cfg = [special |-> FALSE, row_index |-> 0]
    /\ pr_calls = <<>>
    /\ pr_result = [status |-> "none", rows |-> 0]

\* no call of _make_request is under way
RqIdle ==
    /\ rq_pc = "idle"
    /\ rq_retries = 0
    /\ rq_attempt = 0
    /\ rq_token = "valid"
    /\ rq_log = <<>>
    /\ rq_result = "none"

InitRest ==
    /\ merges = 0
    /\ orig_report = report_data
    /\ prev_report = report_data
    /\ raised = FALSE
    /\ parsed = FALSE
    /\ out_rows = <<>>
    /\ out_headers = <<>>
    /\ PrIdle
    /\ RqIdle

\* reports and charts of accounts for the merge
InitMerge ==
    /\ report_data \in MergeReports
    /\ accounts \in AccountLists
    /\ row_max = "*"
    /\ col_max = "*"
    /\ InitRest

\* inputs on which the merge has nothing to do: no report, no columns, no accounts
InitEmpty ==
    /\ \/ /\ report_data \in EmptyishReports
          /\ accounts \in AccountLists \cup {<<>>}
       \/ /\ report_data \in {Report(TwoTitles, <<s1>>) : s1 \in SmallSections(2)}
          /\ accounts = <<>>
    /\ row_max = "*"
    /\ col_max = "*"
    /\ InitRest

\* reports with account rows that are all Data rows, and charts of accounts
\* with a cycle of parents
InitCycle ==
    /\ report_data \in {Report(TwoTitles, <<s1>>) : s1 \in SmallSections(2)}
    /\ accounts \in CyclicAccountLists
    /\ row_max = "*"
    /\ col_max = "*"
    /\ InitRest

\* reports and limits for the flattening
InitParse ==
    /\ \/ /\ report_data \in RowReports
          /\ row_max \in Policies
          /\ col_max = "*"
       \/ /\ report_data \in ColReports
          /\ row_max \in Policies
          /\ col_max \in Policies
    /\ accounts = ParseAccounts
    /\ InitRest

\* the caller's report after the call, and whether the call raised
MergeReturns(r) ==
    /\ report_data' = r.report
    /\ raised' = r.raised

\* the caller's rows and headers
ParseReturns(r) ==
    /\ out_rows' = r.rows
    /\ out_headers' = r.headers

\* inject_missing_accounts(report_data, accounts)
Merge ==
    /\ ~parsed
    /\ ~raised
    /\ merges < MaxMerges
    /\ MergeReturns(inject_missing_accounts(report_data, accounts))
    /\ prev_report' = report_data
    /\ merges' = merges + 1
    /\ UNCHANGED <<accounts, row_max, col_max, orig_report, parsed, out_rows, out_headers,
                   prVars, rqVars>>

\* rows, headers = parse_report_to_rows(report_data, row_max, col_max)
Parse ==
    /\ ~parsed
    /\ ~raised
    /\ ParseReturns(parse_report_to_rows(report_data, row_max, col_max))
    /\ parsed' = TRUE
    /\ UNCHANGED <<report_data, accounts, row_max, col_max, merges, orig_report,
                   prev_report, raised, prVars, rqVars>>

Next == Merge \/ Parse

Init == InitMerge \/ InitEmpty

Spec == Init /\ [][Next]_vars

SpecParse == InitParse /\ [][Next]_vars

SpecCycle == InitCycle /\ [][Next]_vars

(* ---------------------------------------------------------------------- *)
(* ReportProcessor.process_report                                          *)
(* ---------------------------------------------------------------------- *)

\* how a call of a service ends: it did its work and returned a true value, it
\* returned a false value (None, False, (False, 0)), or it raised an exception
\* that it does not catch itself
Outcomes == {"ok", "failed", "raised"}

\* what get_report can return: reports with or without rows
FetchedReports ==
    {Report(TwoTitles, <<s1>>) : s1 \in SmallSections(2)} \cup {Report(TwoTitles, <<>>)}

\* the dicts process_report returns
ErrorResult == [status |-> "error", rows |-> 0]
SuccessResult(n) == [status |-> "success", rows |-> n]

\* process_report ends with this result
PrReturn(result) ==
    /\ pr_pc' = "done"
    /\ pr_result' = result

\* process_report goes on with the statement at `pc`
PrGoto(pc) ==
    /\ pr_pc' = pc
    /\ UNCHANGED pr_result

\* the call is recorded with the way it ended
PrCall(op, o) == pr_calls' = Append(pr_calls, [op |-> op, outcome |-> o])

\* mutant of AfterWrite: the row_index is looked at before the success of the write
AfterWrite_UpdatesFirst(success, row_index) ==
    IF row_index > 0 THEN "update"
    ELSE IF ~success THEN "error"
    ELSE "success"

\* lines 120-129: what follows write_data
AfterWrite(success, row_index) ==
    IF ~success THEN "error"
    ELSE IF row_index > 0 THEN "update"
    ELSE "success"

\* the call starts: the configuration is read (lines 44-54); temp_tab and
\* new_tab_name_format, when both set, ask for a new tab (line 60)
InitReport ==
    /\ report_data = EmptyDict
    /\ accounts = <<>>
    /\ row_max \in Policies
    /\ col_max \in Policies
    /\ merges = 0
    /\ orig_report = EmptyDict
    /\ prev_report = EmptyDict
    /\ raised = FALSE
    /\ parsed = FALSE
    /\ out_rows = <<>>
    /\ out_headers = <<>>
    /\ pr_cfg \in [special : BOOLEAN, row_index : 0..MaxRowIndex]
    /\ pr_pc = (IF pr_cfg.special THEN "duplicate" ELSE "fetch")
    /\ pr_calls = <<>>
    /\ pr_result = [status |-> "none", rows |-> 0]
    /\ RqIdle

\* lines 60-75: self.sheets.duplicate_tab(...)
DuplicateTab ==
    /\ pr_pc = "duplicate"
    /\ \E o \in Outcomes :
           /\ PrCall("duplicate_tab", o)
           /\ IF o = "ok" THEN PrGoto("fetch") ELSE PrReturn(ErrorResult)
    /\ UNCHANGED <<report_data, accounts, row_max, col_max, merges, orig_report,
                   prev_report, raised, parsed, out_rows, out_headers, pr_cfg, rqVars>>

\* lines 78-90: report_data = self.qbo.get_report(...)
GetReport ==
    /\ pr_pc = "fetch"
    /\ \E o \in Outcomes :
           /\ PrCall("get_report", o)
           /\ IF o = "ok"
              THEN /\ report_data' \in FetchedReports
                   /\ PrGoto("parse")
              ELSE /\ UNCHANGED report_data
                   /\ PrReturn(ErrorResult)
    /\ UNCHANGED <<accounts, row_max, col_max, merges, orig_report, prev_report, raised,
                   parsed, out_rows, out_headers, pr_cfg, rqVars>>

\* lines 93-105: rows, headers = self.qbo.parse_report_to_rows(...)
ParseReport ==
    /\ pr_pc = "parse"
    /\ ParseReturns(parse_report_to_rows(report_data, row_max, col_max))
    /\ parsed' = TRUE
    /\ IF out_rows' = <<>> THEN PrReturn(SuccessResult(0)) ELSE PrGoto("clear")
    /\ UNCHANGED <<report_data, accounts, row_max, col_max, merges, orig_report,
                   prev_report, raised, pr_cfg, pr_calls, rqVars>>

\* line 108: self.sheets.clear_tab_data(...), its return value is not looked at
ClearTabData ==
    /\ pr_pc = "clear"
    /\ \E o \in Outcomes :
           /\ PrCall("clear_tab_data", o)
           /\ IF o = "raised" THEN PrReturn(ErrorResult) ELSE PrGoto("write")
    /\ UNCHANGED <<report_data, accounts, row_max, col_max, merges, orig_report,
                   prev_report, raised, parsed, out_rows, out_headers, pr_cfg, rqVars>>

\* lines 111-135: success, rows_written = self.sheets.write_data(...); without
\* a row_index the call returns here
WriteData ==
    /\ pr_pc = "write"
    /\ \E o \in Outcomes :
           /\ PrCall("write_data", o)
           /\ IF o = "raised" \/ AfterWrite(o = "ok", pr_cfg.row_index) = "error"
              THEN PrReturn(ErrorResult)
              ELSE IF AfterWrite(o = "ok", pr_cfg.row_index) = "update"
              THEN PrGoto("update")
              ELSE PrReturn(SuccessResult(Len(out_rows)))
    /\ UNCHANGED <<report_data, accounts, row_max, col_max, merges, orig_report,
                   prev_report, raised, parsed, out_rows, out_headers, pr_cfg, rqVars>>

\* lines 128-135: self.sheets.update_processed_date(...), its return value is
\* not looked at
UpdateProcessedDate ==
    /\ pr_pc = "update"
    /\ \E o \in Outcomes :
           /\ PrCall("update_processed_date", o)
           /\ IF o = "raised" THEN PrReturn(ErrorResult)
              ELSE PrReturn(SuccessResult(Len(out_rows)))
    /\ UNCHANGED <<report_data, accounts, row_max, col_max, merges, orig_report,
                   prev_report, raised, parsed, out_rows, out_headers, pr_cfg, rqVars>>

NextReport ==
    DuplicateTab \/ GetReport \/ ParseReport \/ ClearTabData \/ WriteData
        \/ UpdateProcessedDate

SpecReport == InitReport /\ [][NextReport]_vars

(* ---------------------------------------------------------------------- *)
(* QBOService._make_request                                                *)
(* ---------------------------------------------------------------------- *)

\* how self.session.request(...) and the two statements after it end: a response
\* that raise_for_status and json accept, a response with status 401, a response
\* with another error status (raise_for_status raises), or no response
\* (a RequestException of the transport)
Responses == {"200", "401", "error_status", "exception"}

\* _make_request ends and returns this
RqReturn(result) ==
    /\ rq_pc' = "done"
    /\ rq_result' = result
    /\ UNCHANGED rq_attempt

\* `for attempt in range(retries)`: the next iteration, or the end of the loop
\* and `return None` (line 296)
RqLoop(next_attempt) ==
    /\ rq_attempt' = next_attempt
    /\ IF next_attempt < rq_retries
       THEN rq_pc' = "send" /\ UNCHANGED rq_result
       ELSE rq_pc' = "done" /\ rq_result' = "None"

\* the event is added to the history of the call
RqLog(e) == rq_log' = Append(rq_log, e)

\* _ensure_valid_token (lines 239-250): no token data, a token within its
\* lifetime, or an expired token and the outcome of _refresh_token
EnsureValidToken(token, refreshed) ==
    IF token = "none" THEN "no_token"
    ELSE IF token = "expired" THEN (IF refreshed THEN "refresh_ok" ELSE "refresh_failed")
    ELSE "token_ok"

\* mutant of After401: the loop goes on after a failed refresh
After401_KeepsTrying(refreshed) == "continue"

\* lines 279-283: what follows a 401
After401(refreshed) == IF refreshed THEN "continue" ELSE "return"

\* the call starts
InitRequest ==
    /\ report_data = EmptyDict
    /\ accounts = <<>>
    /\ row_max = "*"
    /\ col_max = "*"
    /\ merges = 0
    /\ orig_report = EmptyDict
    /\ prev_report = EmptyDict
    /\ raised = FALSE
    /\ parsed = FALSE
    /\ out_rows = <<>>
    /\ out_headers = <<>>
    /\ PrIdle
    /\ rq_pc = "ensure"
    /\ rq_retries \in 0..MaxRetries
    /\ rq_attempt = 0
    /\ rq_token \in {"none", "valid", "expired"}
    /\ rq_log = <<>>
    /\ rq_result = "none"

\* lines 259-261: if not self._ensure_valid_token(): return None
EnsureToken ==
    /\ rq_pc = "ensure"
    /\ \E refreshed \in BOOLEAN :
           /\ RqLog(EnsureValidToken(rq_token, refreshed))
           /\ IF EnsureValidToken(rq_token, refreshed) \in {"no_token", "refresh_failed"}
              THEN RqReturn("None") /\ UNCHANGED rq_token
              ELSE RqLoop(0) /\ rq_token' = "valid"
    /\ UNCHANGED <<report_data, accounts, row_max, col_max, merges, orig_report,
                   prev_report, raised, parsed, out_rows, out_headers, prVars, rq_retries>>

\* lines 270-294: one iteration of the loop up to the test for 401, the return
\* of the parsed response, or the except clause
SendRequest ==
    /\ rq_pc = "send"
    /\ \E resp \in Responses :
           /\ RqLog(resp)
           /\ IF resp = "200" THEN RqReturn("json")
              ELSE IF resp = "401"
              THEN rq_pc' = "refresh" /\ UNCHANGED <<rq_attempt, rq_result>>
              ELSE RqLoop(rq_attempt + 1)
    /\ UNCHANGED <<report_data, accounts, row_max, col_max, merges, orig_report,
                   prev_report, raised, parsed, out_rows, out_headers, prVars, rq_retries,
                   rq_token>>

\* lines 279-283: if self._refresh_token(): continue; return None
RefreshAfter401 ==
    /\ rq_pc = "refresh"
    /\ \E refreshed \in BOOLEAN :
           /\ RqLog(IF refreshed THEN "refresh_ok" ELSE "refresh_failed")
           /\ IF After401(refreshed) = "continue"
              THEN RqLoop(rq_attempt + 1)
              ELSE RqReturn("None")
    /\ UNCHANGED <<report_data, accounts, row_max, col_max, merges, orig_report,
                   prev_report, raised, parsed, out_rows, out_headers, prVars, rq_retries,
                   rq_token>>

NextRequest == EnsureToken \/ SendRequest \/ RefreshAfter401

\* the statements of the call run one after the other, and each of them ends:
\* the request has timeout=60, the sleep between attempts is 1 to retries - 1
\* seconds
SpecRequest == InitRequest /\ [][NextRequest]_vars /\ WF_vars(NextRequest)

(* ---------------------------------------------------------------------- *)
(* Vocabulary of the properties                                            *)
(* ---------------------------------------------------------------------- *)

\* every node of a row list, at any depth
RECURSIVE AllNodes(_)
AllNodes(rows) ==
    IF rows = <<>> THEN {}
    ELSE {Head(rows)} \cup AllNodes(SubRows(Head(rows))) \cup AllNodes(Tail(rows))

\* number of nodes of a row list, at any depth
RECURSIVE NodeCount(_)
NodeCount(rows) ==
    IF rows = <<>> THEN 0
    ELSE 1 + NodeCount(SubRows(Head(rows))) + NodeCount(Tail(rows))

\* the flattened output under rowPolicy = ALL, colPolicy = ALL
FlatAll(report) == parse_report_to_rows(report, "*", "*").rows

\* a is a subsequence of b: the elements of a occur in b in the same order
RECURSIVE IsSubseq(_, _)
IsSubseq(a, b) ==
    IF a = <<>> THEN TRUE
    ELSE IF b = <<>> THEN FALSE
    ELSE IF Head(a) = Head(b) THEN IsSubseq(Tail(a), Tail(b))
    ELSE IsSubseq(a, Tail(b))

\* a total row: the first cell's text contains "total", whatever the case
IsTotal(row) == row # <<>> /\ ContainsTotal(row[1])

\* display name of a child: first cell value of its header, else of its row
DisplayName(n) ==
    IF Has(n, "Header") /\ Truthy(HeaderCols(n)) THEN CellValue(HeaderCols(n)[1])
    ELSE IF Truthy(Get(n, "ColData", <<>>)) THEN CellValue(n["ColData"][1])
    ELSE <<>>

\* the display names of a children list are non-decreasing, case ignored
SortedNoCase(kids) ==
    \A i \in 1..(Len(kids) - 1) :
        ~StrGT(Lower(DisplayName(kids[i])), Lower(DisplayName(kids[i + 1])))

\* every section's children list is sorted
AllSorted(report) ==
    \A n \in AllNodes(SubRows(report)) : SortedNoCase(SubRows(n))

\* the ids a node carries on its header or row first cell
NodeIds(n) ==
    (IF Truthy(HeaderCols(n)) /\ Has(HeaderCols(n)[1], "id") /\ HeaderCols(n)[1]["id"] # ""
     THEN {HeaderCols(n)[1]["id"]} ELSE {})
    \cup (IF Truthy(Get(n, "ColData", <<>>)) /\ Has(n["ColData"][1], "id")
             /\ n["ColData"][1]["id"] # ""
          THEN {n["ColData"][1]["id"]} ELSE {})

\* PresentIdSet: the ids carried anywhere in the report
IdsIn(report) == UNION {NodeIds(n) : n \in AllNodes(SubRows(report))}

\* the inputs are non-empty and the report has at least one column
NonEmptyInputs(report) ==
    /\ Truthy(report)
    /\ accounts # <<>>
    /\ Len(ReportColumns(report)) >= 1

\* the group of a node is an injection target
IsTarget(n) == Get(n, "group", "") \in DOMAIN SECTION_ACCOUNT_TYPES

\* paths (child indices from the top-level list) to every injection-target section
RECURSIVE TargetPaths(_)
TargetPaths(rows) ==
    UNION {(IF IsTarget(rows[i]) THEN {<<i>>} ELSE {})
           \cup {<<i>> \o q : q \in TargetPaths(SubRows(rows[i]))} : i \in DOMAIN rows}

RECURSIVE NodeAt(_, _)
NodeAt(rows, path) ==
    IF Len(path) = 1 THEN rows[path[1]]
    ELSE NodeAt(SubRows(rows[path[1]]), Tail(path))

\* the accounts a section of this group selects (its subset), as indices of `accounts`
SubsetOf(group) ==
    {i \in DOMAIN accounts : accounts[i]["AccountType"] \in SECTION_ACCOUNT_TYPES[group]}

\* the account has a parent among the accounts of `subset`
HasParentIn(i, subset) ==
    \E j \in subset : accounts[j]["Id"] = ParentId(accounts[i]) /\ ParentId(accounts[i]) # ""

\* the account has sub-accounts in the chart of accounts
HasChildAccounts(i) ==
    \E j \in DOMAIN accounts : ParentId(accounts[j]) = accounts[i]["Id"]

\* a node synthesized by the merge: its second cell is an empty amount
\* (the cells of a fetched report carry amounts)
IsSynthCells(cols) == Len(cols) >= 2 /\ cols[2] = [value |-> <<>>]
IsSynthNode(n) == IsSynthCells(HeaderCols(n)) \/ IsSynthCells(Get(n, "ColData", <<>>))

\* a Data row promoted to a Section: fetched header cells, synthesized summary
IsPromoted(n) ==
    /\ Truthy(HeaderCols(n)) /\ ~IsSynthCells(HeaderCols(n))
    /\ Truthy(SummaryCols(n)) /\ Has(SummaryCols(n)[1], "id")

\* a synthesized cell list: the name and id, then empty amounts without id
IsZeroCells(cols, name, id, c) ==
    /\ Len(cols) = c
    /\ cols[1] = [value |-> name, id |-> id]
    /\ \A j \in 2..c : cols[j] = [value |-> <<>>]

(* ---------------------------------------------------------------------- *)
(* Properties                                                              *)
(* ---------------------------------------------------------------------- *)

\* C1 (as claimed): with row_max = "-T" no row of the output has a first cell
\* containing "total", whether it comes from a header, a row or a summary
C1_NoTotalRowStopBefore ==
    (parsed /\ row_max = "-T") => \A i \in DOMAIN out_rows : ~IsTotal(out_rows[i])

\* the rows a node emits itself under row_max = "T"
OwnEmittedT(n) ==
    OwnRows(n) \o (IF IsTotalRow(n) THEN <<>> ELSE SummaryPart(n, "T"))

\* C2 (as claimed): with row_max = "T" the rows every node emits itself hold at
\* most one total row, and that one is the last row the node contributes
C2_OneTotalLastPerNode ==
    (parsed /\ row_max = "T") =>
        \A n \in AllNodes(SubRows(report_data)) :
            LET own     == OwnEmittedT(n)
                contrib == process_row_data(n, "T")
                totals  == {i \in DOMAIN own : IsTotal(own[i])}
            IN  /\ Cardinality(totals) <= 1
                /\ totals # {} =>
                       /\ Len(own) \in totals
                       /\ contrib[Len(contrib)] = own[Len(own)]

\* C3: a second merge of the same account list leaves the flattened output
\* (rowPolicy = ALL) as the first merge left it, and inserts no node
C3_MergeIdempotent ==
    merges >= 2 =>
        /\ FlatAll(report_data) = FlatAll(prev_report)
        /\ NodeCount(SubRows(report_data)) = NodeCount(SubRows(prev_report))

\* C3 witness: a second merge has run after a first merge that inserted nodes
C3_Witness ==
    /\ merges = 2
    /\ NodeCount(SubRows(prev_report)) > NodeCount(SubRows(orig_report))

\* C4 (as claimed): after a merge every section's children list is sorted by
\* display name, case ignored, whatever its order in the input was
C4_SortedAfterAnyMerge == merges >= 1 => AllSorted(report_data)

\* C4 (amended): if every section's children list is sorted before the merge,
\* every section's children list is sorted after it
C4_SortedIfSortedBefore ==
    (merges >= 1 /\ AllSorted(prev_report)) => AllSorted(report_data)

\* C4 witness: a merge of a sorted report put a synthesized node in front of a
\* fetched one
C4_Witness ==
    /\ merges = 1
    /\ AllSorted(prev_report)
    /\ \E n \in AllNodes(SubRows(report_data)) :
           \E i \in 1..(Len(SubRows(n)) - 1) :
               IsSynthNode(SubRows(n)[i]) /\ ~IsSynthNode(SubRows(n)[i + 1])

\* C5: the flattened output before a merge is a subsequence of the flattened
\* output after it
C5_RowsPreserved ==
    merges >= 1 => IsSubseq(FlatAll(prev_report), FlatAll(report_data))

\* C5 witness: the merge promoted a Data row to a Section and added rows
C5_Witness ==
    /\ merges = 1
    /\ \E n \in AllNodes(SubRows(report_data)) :
           IsPromoted(n) /\ n \notin AllNodes(SubRows(prev_report))
    /\ Len(FlatAll(report_data)) > Len(FlatAll(prev_report))

\* C6: after a merge with non-empty inputs every account whose type
\* is mapped by the group of an injection-target section is carried by some node
C6_EveryMappedAccountPresent ==
    (merges >= 1 /\ NonEmptyInputs(orig_report)) =>
        \A p \in TargetPaths(SubRows(orig_report)) :
            \A i \in SubsetOf(NodeAt(SubRows(orig_report), p)["group"]) :
                accounts[i]["Id"] \in IdsIn(report_data)

\* C9: the merge returns the report unchanged when the report is absent or empty,
\* the account list is empty, or the report has no column
C9_EmptyInputUnchanged ==
    (/\ merges >= 1
     /\ \/ ~Truthy(prev_report)
        \/ accounts = <<>>
        \/ Len(ReportColumns(prev_report)) = 0)
    => (report_data = prev_report /\ ~raised)

\* C9 witness: a merge ran on a report without columns that has an injection
\* target, with accounts of its type missing from it
C9_Witness ==
    /\ merges = 1
    /\ Truthy(prev_report)
    /\ Len(ReportColumns(prev_report)) = 0
    /\ \E p \in TargetPaths(SubRows(prev_report)) :
           \E i \in SubsetOf(NodeAt(SubRows(prev_report), p)["group"]) :
               accounts[i]["Id"] \notin IdsIn(prev_report)

\* the accounts C10 speaks of, for the section at path p: of the section's type,
\* without sub-accounts, without parent in the subset, absent from PresentIdSet
ZeroRowAccounts(p) ==
    LET subset == SubsetOf(NodeAt(SubRows(orig_report), p)["group"])
    IN  {i \in subset :
            /\ ~HasChildAccounts(i)
            /\ ~HasParentIn(i, subset)
            /\ accounts[i]["Id"] \notin IdsIn(orig_report)}

\* account i is in the children of the section at path p of the merged report
\* exactly once, as a Data node of exactly c cells: name and id, then c-1 empty
\* strings without id
ZeroRowIn(p, i) ==
    LET kids == SubRows(NodeAt(SubRows(report_data), p))
        hits == {k \in DOMAIN kids : accounts[i]["Id"] \in NodeIds(kids[k])}
    IN  /\ Cardinality(hits) = 1
        /\ \A k \in hits :
               /\ DOMAIN kids[k] = {"ColData", "type"}
               /\ kids[k]["type"] = "Data"
               /\ IsZeroCells(kids[k]["ColData"], accounts[i]["Name"],
                              accounts[i]["Id"], Len(ReportColumns(orig_report)))

\* C10: for every section whose group maps to an account type, each
\* such account is inserted into the section's children as one zero Data row
C10_ZeroRowInjected ==
    (merges >= 1 /\ NonEmptyInputs(orig_report)) =>
        \A p \in TargetPaths(SubRows(orig_report)) :
            \A i \in ZeroRowAccounts(p) : ZeroRowIn(p, i)

\* the smaller of two numbers
Min(a, b) == IF a < b THEN a ELSE b

\* the rows under the state's row_max without column limit
UncutRows == parse_report_to_rows(report_data, row_max, "*").rows

\* C7: under col_max "T" or "-T" the output has the rows of col_max "*", in the
\* same order, each cut to one common length (shorter rows are left as they are)
C7_ColumnCutKeepsRows ==
    parsed =>
        LET all  == UncutRows
            lens == {0} \cup UNION {1..Len(all[i]) : i \in DOMAIN all}
        IN  /\ Len(out_rows) = Len(all)
            /\ \E n \in lens :
                   \A i \in DOMAIN all : out_rows[i] = SubSeq(all[i], 1, Min(n, Len(all[i])))

\* C7 witness: a column limit shortened one row and left a shorter row whole
C7_Witness ==
    /\ parsed
    /\ col_max \in {"T", "-T"}
    /\ \E i \in DOMAIN out_rows : Len(out_rows[i]) < Len(UncutRows[i])
    /\ \E i \in DOMAIN out_rows : out_rows[i] # <<>> /\ out_rows[i] = UncutRows[i]

\* the column titles of the report
Titles == [i \in DOMAIN ReportColumns(report_data) |->
              Get(ReportColumns(report_data)[i], "ColTitle", <<>>)]

\* the indices of the titles that contain "total", whatever the case
TotalTitles == {i \in DOMAIN Titles : ContainsTotal(Titles[i])}

\* C8: with k the first title containing "total", "-T" keeps the headers and the
\* cells of every row before k, "T" those up to k; without such a title, or with
\* col_max "*", headers and rows are those of col_max "*"
C8_ColumnCutOff ==
    parsed =>
        LET all == UncutRows
        IN  IF col_max = "*" \/ TotalTitles = {}
            THEN out_headers = Titles /\ out_rows = all
            ELSE LET k    == CHOOSE i \in TotalTitles : \A j \in TotalTitles : i <= j
                     keep == IF col_max = "-T" THEN 1..(k - 1) ELSE 1..k
                 IN  /\ DOMAIN out_headers = keep
                     /\ \A i \in keep : out_headers[i] = Titles[i]
                     /\ DOMAIN out_rows = DOMAIN all
                     /\ \A r \in DOMAIN all :
                            /\ DOMAIN out_rows[r] = keep \cap DOMAIN all[r]
                            /\ \A i \in DOMAIN out_rows[r] : out_rows[r][i] = all[r][i]

\* C8 witness: a column limit was applied to a report with two "total" titles,
\* the first of them not the first column
C8_Witness ==
    /\ parsed
    /\ col_max \in {"T", "-T"}
    /\ Cardinality(TotalTitles) >= 2
    /\ 1 \notin TotalTitles
    /\ out_rows # <<>>

\* C8 witness of the no-op: a column limit on a report without "total" title
C8_WitnessNoTotal ==
    /\ parsed
    /\ col_max \in {"T", "-T"}
    /\ Titles # <<>>
    /\ TotalTitles = {}

\* the Data/Section invariant of a report tree: a node that has a row is a Data
\* node and has no header, no children and no summary
DataSectionInvariant(report) ==
    \A n \in AllNodes(SubRows(report)) :
        Has(n, "ColData") => /\ ~Has(n, "Header")
                             /\ SubRows(n) = <<>>
                             /\ ~Has(n, "Summary")

\* the rows of a row list whose first cell does not contain "total"
NonTotalRows(rows) == SelectSeq(rows, LAMBDA r : ~IsTotal(r))

\* C11: for a tree that satisfies the Data/Section invariant, the rows of the ALL
\* output whose first cell does not contain "total" all appear in the "-T" output
\* in the same relative order, and the "-T" output holds no row that the ALL
\* output does not hold: it is a subsequence of the ALL output
C11_BeforeTotalKeepsOtherRows ==
    (parsed /\ row_max = "-T" /\ col_max = "*" /\ DataSectionInvariant(report_data)) =>
        /\ IsSubseq(NonTotalRows(FlatAll(report_data)), out_rows)
        /\ IsSubseq(out_rows, FlatAll(report_data))

\* C11 witness: a "-T" flattening of a well-formed tree dropped a row and a
\* summary that are totals and kept a header, a row and a summary that are not
C11_Witness ==
    /\ parsed /\ row_max = "-T" /\ col_max = "*"
    /\ DataSectionInvariant(report_data)
    /\ Len(out_rows) + 2 <= Len(FlatAll(report_data))
    /\ Len(NonTotalRows(out_rows)) >= 3
    /\ \E n \in AllNodes(SubRows(report_data)) :
           /\ Truthy(SummaryCols(n)) /\ ~ContainsTotal(CellValue(SummaryCols(n)[1]))
           /\ \E i \in DOMAIN SubRows(n) : IsTotalRow(SubRows(n)[i])

\* C12 (as claimed): the merge never aborts: for every tree, a Section with a
\* header id and no children container included, and every account list, a call
\* of inject_missing_accounts returns and is never left by an exception
C12_MergeNeverAborts == ~raised

\* C13 (as claimed): the merge does not mutate the caller's input: after a merge
\* the tree the caller passed is as it was, the augmented tree being a new value
C13_CallerInputUnchanged == merges >= 1 => report_data = orig_report

\* C13 (amended): the merge updates the caller's tree in place, and merging the
\* same account list into the tree it returned leaves that tree as it is
C13_SecondMergeLeavesTree == merges >= 2 => report_data = prev_report

\* C13 witness: the first merge changed the caller's tree, the second returned
C13_Witness ==
    /\ merges >= 2
    /\ ~raised
    /\ prev_report # orig_report
    /\ NodeCount(SubRows(prev_report)) > NodeCount(SubRows(orig_report))

\* the accounts a section of this group is to receive: of its type, without a
\* parent among the accounts of its type, absent from the report as it was passed
MissingTopLevel(group) ==
    {i \in SubsetOf(group) :
        /\ ~HasParentIn(i, SubsetOf(group))
        /\ accounts[i]["Id"] \notin IdsIn(orig_report)}

\* paths to the sections that are not injection targets and lie below no
\* injection target
RECURSIVE UnmappedPaths(_)
UnmappedPaths(rows) ==
    UNION {IF IsTarget(rows[i]) THEN {}
           ELSE {<<i>>} \cup {<<i>> \o q : q \in UnmappedPaths(SubRows(rows[i]))} :
           i \in DOMAIN rows}

\* C14 (as claimed): after a merge every Section, at any depth, whose group is in
\* the map has among its children a node for each missing top-level account of
\* its type; a section whose group is not in the map has no node inserted into
\* its own children, and the mapped sections below it are injected
C14_EveryMappedSectionInjected ==
    (merges >= 1 /\ NonEmptyInputs(orig_report)) =>
        /\ \A n \in AllNodes(SubRows(report_data)) :
               IsTarget(n) =>
                   \A i \in MissingTopLevel(n["group"]) :
                       \E k \in DOMAIN SubRows(n) :
                           accounts[i]["Id"] \in NodeIds(SubRows(n)[k])
        /\ \A p \in UnmappedPaths(SubRows(orig_report)) :
               Len(SubRows(NodeAt(SubRows(report_data), p)))
                   = Len(SubRows(NodeAt(SubRows(orig_report), p)))

\* paths (child indices from the top-level list) to every node of a row list
RECURSIVE NodePaths(_)
NodePaths(rows) ==
    UNION {{<<i>>} \cup {<<i>> \o q : q \in NodePaths(SubRows(rows[i]))} : i \in DOMAIN rows}

\* the cells of one part of a node: its header, its own row or its summary
PartCells(n, part) ==
    IF part = "Header" THEN HeaderCols(n)
    ELSE IF part = "ColData" THEN Get(n, "ColData", <<>>)
    ELSE SummaryCols(n)

\* the rows a report holds: one for every non-empty header, row and summary
RowEvents(report) ==
    {e \in [path : NodePaths(SubRows(report)), part : {"Header", "ColData", "Summary"}] :
        PartCells(NodeAt(SubRows(report), e.path), e.part) # <<>>}

\* the place of a row in the depth-first pre-order: a node's header comes first,
\* then its own row, then its children by index, then its summary
PreOrderKey(report, e) ==
    e.path \o <<IF e.part = "Header" THEN -1
                ELSE IF e.part = "ColData" THEN 0
                ELSE Len(SubRows(NodeAt(SubRows(report), e.path))) + 1>>

\* lexicographic order of integer sequences
LexLess(a, b) ==
    \E k \in 1..Min(Len(a), Len(b)) :
        /\ a[k] < b[k]
        /\ \A j \in 1..(k - 1) : a[j] = b[j]

\* the rows of the set E of row events, each once, in depth-first pre-order
PreOrderRows(report, E) ==
    [k \in 1..Cardinality(E) |->
        LET e == CHOOSE x \in E :
                    Cardinality({f \in E : LexLess(PreOrderKey(report, f),
                                                   PreOrderKey(report, x))}) = k - 1
        IN  RowValues(PartCells(NodeAt(SubRows(report), e.path), e.part))]

\* the node at path p lies below a node whose own row is a total row
BelowTotalRow(report, p) ==
    \E m \in 1..(Len(p) - 1) : IsTotalRow(NodeAt(SubRows(report), SubSeq(p, 1, m)))

\* C15: with row_max = "T" a total summary ends the processing of its own node
\* only: the output is the pre-order listing of the header, row and summary of
\* every node, later siblings and later top-level nodes of a node with a total
\* summary included; the only rows left out are those below a node whose own row
\* is a total row, and that node's summary
C15_TotalSummaryEndsOwnNodeOnly ==
    (parsed /\ row_max = "T" /\ col_max = "*") =>
        out_rows = PreOrderRows(report_data,
            {e \in RowEvents(report_data) :
                /\ ~BelowTotalRow(report_data, e.path)
                /\ e.part = "Summary" =>
                       ~IsTotalRow(NodeAt(SubRows(report_data), e.path))})

\* C15 witness: with row_max = "T" a section's total summary was emitted, and
\* after it the rows of a later sibling and of a later top-level node
C15_Witness ==
    /\ parsed /\ row_max = "T" /\ col_max = "*"
    /\ \E p \in NodePaths(SubRows(report_data)) :
           /\ Len(p) = 2
           /\ ~IsTotalRow(NodeAt(SubRows(report_data), <<p[1]>>))
           /\ ~IsTotalRow(NodeAt(SubRows(report_data), p))
           /\ IsTotal(RowValues(SummaryCols(NodeAt(SubRows(report_data), p))))
           /\ <<p[1], p[2] + 1>> \in NodePaths(SubRows(report_data))
           /\ <<p[1] + 1>> \in NodePaths(SubRows(report_data))
           /\ \E i \in DOMAIN out_rows :
                  /\ out_rows[i] = RowValues(SummaryCols(NodeAt(SubRows(report_data), p)))
                  /\ i + 2 <= Len(out_rows)
                  /\ ~IsTotal(out_rows[i + 1])

\* the node's own header first cell or own row first cell contains "total"
OwnTotal(n) == IsTotal(RowValues(HeaderCols(n))) \/ IsTotalRow(n)

\* the node at path p is, or lies below, a node whose header or row is a total
InOwnTotal(report, p) ==
    \E m \in 1..Len(p) : OwnTotal(NodeAt(SubRows(report), SubSeq(p, 1, m)))

\* C16 (as claimed): with row_max = "-T" nothing is emitted for a node whose own
\* header first cell or own row first cell contains "total": not its header, not
\* its row, nothing of its descendants, not its summary; every row of the output
\* comes from outside such nodes
C16_NothingForTotalNode ==
    (parsed /\ row_max = "-T" /\ col_max = "*") =>
        IsSubseq(out_rows,
                 PreOrderRows(report_data,
                     {e \in RowEvents(report_data) : ~InOwnTotal(report_data, e.path)}))

\* the node at path p lies below a node whose header or row is a total
BelowOwnTotal(report, p) ==
    \E m \in 1..(Len(p) - 1) : OwnTotal(NodeAt(SubRows(report), SubSeq(p, 1, m)))

\* C17 (as claimed): with row_max = "T", after a node has emitted a header or a
\* row whose first cell contains "total", nothing of its children and no summary
\* of it is emitted; every row of the output is a header or row of a node not
\* below such a node, or the summary of a node that is not and is not below one
C17_TotalRowEndsNode ==
    (parsed /\ row_max = "T" /\ col_max = "*") =>
        IsSubseq(out_rows,
                 PreOrderRows(report_data,
                     {e \in RowEvents(report_data) :
                         /\ ~BelowOwnTotal(report_data, e.path)
                         /\ e.part = "Summary" => ~InOwnTotal(report_data, e.path)}))

\* C18: with row_max = "*" the output is the depth-first pre-order listing of
\* the tree: for each node its header, then its own row, then the whole output
\* of each child in child order, then its summary; top-level nodes in their
\* order; every header, row and summary is in the output exactly once
C18_AllIsPreOrder ==
    (parsed /\ row_max = "*" /\ col_max = "*") =>
        out_rows = PreOrderRows(report_data, RowEvents(report_data))

\* C18 witness: with row_max = "*" a tree was flattened whose first top-level
\* section has a header, a summary and two children, one of them a section
\* with a total summary, and which has a second top-level node
C18_Witness ==
    /\ parsed /\ row_max = "*" /\ col_max = "*"
    /\ Len(SubRows(report_data)) >= 2
    /\ LET n == SubRows(report_data)[1]
       IN  /\ Truthy(HeaderCols(n)) /\ Truthy(SummaryCols(n))
           /\ Len(SubRows(n)) >= 2
           /\ \E i \in DOMAIN SubRows(n) :
                  /\ Truthy(HeaderCols(SubRows(n)[i]))
                  /\ IsTotal(RowValues(SummaryCols(SubRows(n)[i])))
    /\ Len(out_rows) >= 6

\* account i is a sub-account, at any depth, of the account with this id
RECURSIVE DescendsFrom(_, _, _)
DescendsFrom(i, id, fuel) ==
    /\ fuel > 0
    /\ ParentId(accounts[i]) # ""
    /\ \/ ParentId(accounts[i]) = id
       \/ \E j \in DOMAIN accounts :
              /\ accounts[j]["Id"] = ParentId(accounts[i])
              /\ DescendsFrom(j, id, fuel - 1)

\* C19 (as claimed): the children of a synthesized Section are built with an
\* empty present-id context: every child and descendant account of the section's
\* account has a node below the section, also when its id occurs elsewhere in
\* the report
C19_NewSectionHoldsDescendants ==
    merges >= 1 =>
        \A n \in AllNodes(SubRows(report_data)) :
            IsSynthCells(HeaderCols(n)) =>
                \A i \in DOMAIN accounts :
                    DescendsFrom(i, HeaderCols(n)[1]["id"], Len(accounts)) =>
                        accounts[i]["Id"] \in UNION {NodeIds(k) : k \in AllNodes(SubRows(n))}

\* C20 (as claimed): in the index built by a merge, under every parent the child
\* bucket is ascending by name when compared case-insensitively ("a" precedes
\* "B"), whatever the account list
C20_BucketsSortedNoCase ==
    (merges >= 1 /\ NonEmptyInputs(orig_report)) =>
        \A p \in DOMAIN ChildrenMap(accounts) :
            \A i \in 1..(Len(ChildrenMap(accounts)[p]) - 1) :
                ~StrGT(Lower(ChildrenMap(accounts)[p][i]["Name"]),
                       Lower(ChildrenMap(accounts)[p][i + 1]["Name"]))

\* paths to the sections the merge injects into: injection targets below no
\* injection target
RECURSIVE WalkedTargetPaths(_)
WalkedTargetPaths(rows) ==
    UNION {IF IsTarget(rows[i]) THEN {<<i>>}
           ELSE {<<i>> \o q : q \in WalkedTargetPaths(SubRows(rows[i]))} :
           i \in DOMAIN rows}

\* the display names of a children list, lower-cased
LowerNames(kids) == [i \in DOMAIN kids |-> Lower(GetRowName(kids[i]))]

\* C21: a synthesized node is inserted immediately before the first child whose
\* display name is strictly greater, case ignored, or at the end: in every
\* children list no child before a synthesized node has a greater name, and the
\* child after it has a strictly greater name or was synthesized after it with a
\* name not smaller; the children that were already in a list the merge injects
\* into keep their relative order
C21_InsertedBeforeFirstGreater ==
    merges >= 1 =>
        /\ \A n \in AllNodes(SubRows(report_data)) :
               \A k \in DOMAIN SubRows(n) :
                   IsSynthNode(SubRows(n)[k]) =>
                       /\ \A j \in 1..(k - 1) :
                              ~StrGT(LowerNames(SubRows(n))[j], LowerNames(SubRows(n))[k])
                       /\ k < Len(SubRows(n)) =>
                              \/ StrGT(LowerNames(SubRows(n))[k + 1], LowerNames(SubRows(n))[k])
                              \/ /\ IsSynthNode(SubRows(n)[k + 1])
                                 /\ ~StrGT(LowerNames(SubRows(n))[k],
                                           LowerNames(SubRows(n))[k + 1])
        /\ \A p \in WalkedTargetPaths(SubRows(orig_report)) :
               LowerNames(SelectSeq(SubRows(NodeAt(SubRows(report_data), p)),
                                    LAMBDA r : ~IsSynthNode(r)))
                   = LowerNames(SubRows(NodeAt(SubRows(orig_report), p)))

\* C21 witness: a merge inserted a node right after an existing child of equal
\* name, case ignored, and right before an existing child of greater name
C21_Witness ==
    /\ merges = 1
    /\ \E p \in WalkedTargetPaths(SubRows(orig_report)) :
           LET kids == SubRows(NodeAt(SubRows(report_data), p))
           IN  \E k \in 2..(Len(kids) - 1) :
                   /\ IsSynthNode(kids[k])
                   /\ ~IsSynthNode(kids[k - 1]) /\ ~IsSynthNode(kids[k + 1])
                   /\ LowerNames(kids)[k - 1] = LowerNames(kids)[k]
                   /\ StrGT(LowerNames(kids)[k + 1], LowerNames(kids)[k])

\* the indices of the accounts whose parent is the account with this id
ChildAccounts(id) == {j \in DOMAIN accounts : ParentId(accounts[j]) = id /\ id # ""}

\* n is what the promotion of the Data node d for account i leaves: the former
\* row cells as header, no row, a summary "Total {name}" followed by c-1 empty
\* cells, and below it only synthesized nodes of the account's children, one
\* for each child that was absent from the report
PromotedFrom(n, d, i) ==
    /\ HeaderCols(n) = d["ColData"]
    /\ ~Has(n, "ColData")
    /\ n["type"] = "Section"
    /\ RowValues(SummaryCols(n))
           = <<TotalPrefix \o accounts[i]["Name"]>>
             \o [j \in 1..(Len(ReportColumns(orig_report)) - 1) |-> <<>>]
    /\ \A k \in DOMAIN SubRows(n) :
           /\ IsSynthNode(SubRows(n)[k])
           /\ \E j \in ChildAccounts(accounts[i]["Id"]) :
                  accounts[j]["Id"] \in NodeIds(SubRows(n)[k])
    /\ \A j \in ChildAccounts(accounts[i]["Id"]) :
           accounts[j]["Id"] \notin IdsIn(orig_report) =>
               \E k \in DOMAIN SubRows(n) : accounts[j]["Id"] \in NodeIds(SubRows(n)[k])

\* C22: when an account of PresentIdSet has child accounts and the node that
\* carries its id in the children list being processed is a Data node, that node
\* becomes a Section: header = the former row cells, no row of its own, summary
\* "Total {name}" and c-1 empty cells, children = the account's children that
\* were missing. Stated for the lists of the sections the merge injects into,
\* and, for the shape, of every promoted node at any depth
C22_DataRowPromoted ==
    (merges >= 1 /\ NonEmptyInputs(orig_report)) =>
        /\ ~raised =>
               \A p \in WalkedTargetPaths(SubRows(orig_report)) :
                   \A i \in SubsetOf(NodeAt(SubRows(orig_report), p)["group"]) :
                       LET old == SubRows(NodeAt(SubRows(orig_report), p))
                           new == SubRows(NodeAt(SubRows(report_data), p))
                           id  == accounts[i]["Id"]
                       IN  (/\ ~HasParentIn(i, SubsetOf(NodeAt(SubRows(orig_report), p)["group"]))
                            /\ id \in IdsIn(orig_report)
                            /\ HasChildAccounts(i)
                            /\ FindRow(old, id) # 0
                            /\ Has(old[FindRow(old, id)], "ColData")
                            /\ ~Has(old[FindRow(old, id)], "Rows"))
                           => /\ FindRow(new, id) # 0
                              /\ PromotedFrom(new[FindRow(new, id)], old[FindRow(old, id)], i)
        /\ \A n \in AllNodes(SubRows(report_data)) :
               (IsPromoted(n) /\ n \notin AllNodes(SubRows(orig_report))) =>
                   \E d \in AllNodes(SubRows(orig_report)) :
                       \E i \in DOMAIN accounts :
                           /\ Has(d, "ColData") /\ ~Has(d, "Rows")
                           /\ accounts[i]["Id"] \in NodeIds(d)
                           /\ HasChildAccounts(i)
                           /\ PromotedFrom(n, d, i)

\* C22 witness: a merge promoted a Data row and gave it a child
C22_Witness ==
    /\ merges = 1
    /\ ~raised
    /\ \E p \in WalkedTargetPaths(SubRows(orig_report)) :
           \E k \in DOMAIN SubRows(NodeAt(SubRows(report_data), p)) :
               LET n == SubRows(NodeAt(SubRows(report_data), p))[k]
               IN  /\ IsPromoted(n)
                   /\ n \notin AllNodes(SubRows(orig_report))
                   /\ SubRows(n) # <<>>
                   /\ \E d \in AllNodes(SubRows(orig_report)) :
                          Has(d, "ColData") /\ d["ColData"] = HeaderCols(n)

\* the accounts whose branch the merge skips in the list of the section at path
\* p: top-level for the section, in PresentIdSet, with child accounts, and
\* carried by no node of the list
AmbiguousAccounts(p) ==
    LET subset == SubsetOf(NodeAt(SubRows(orig_report), p)["group"])
    IN  {i \in subset :
            /\ ~HasParentIn(i, subset)
            /\ accounts[i]["Id"] \in IdsIn(orig_report)
            /\ HasChildAccounts(i)
            /\ FindRow(SubRows(NodeAt(SubRows(orig_report), p)), accounts[i]["Id"]) = 0}

\* the number of nodes of a children list that carry the id
CarriedBy(kids, id) == Cardinality({k \in DOMAIN kids : id \in NodeIds(kids[k])})

\* C23: when an account is in PresentIdSet and has child accounts but no node of
\* the list being processed carries its id, the merge raises no error (an
\* exception comes only from a row that carries an id and has neither sub-rows
\* nor cells of its own), puts no node for the account into the list, adds none
\* for its descendants (those that are not top-level accounts of the section
\* themselves), promotes nothing, leaves the children that were in the list in
\* their order, and, where it returns, has inserted the other top-level accounts
\* that were missing
C23_AmbiguousBranchSkipped ==
    (merges >= 1 /\ NonEmptyInputs(orig_report)) =>
        \A p \in WalkedTargetPaths(SubRows(orig_report)) :
            \A i \in AmbiguousAccounts(p) :
                LET old    == SubRows(NodeAt(SubRows(orig_report), p))
                    new    == SubRows(NodeAt(SubRows(report_data), p))
                    subset == SubsetOf(NodeAt(SubRows(orig_report), p)["group"])
                IN  /\ (\A n \in AllNodes(SubRows(orig_report)) :
                            ~(PromoteRaises(n) /\ NodeIds(n) # {})) => ~raised
                    /\ CarriedBy(new, accounts[i]["Id"]) = 0
                    /\ \A j \in DOMAIN accounts :
                           (/\ DescendsFrom(j, accounts[i]["Id"], Len(accounts))
                            /\ ~(j \in subset /\ ~HasParentIn(j, subset)))
                           => CarriedBy(new, accounts[j]["Id"])
                                  = CarriedBy(old, accounts[j]["Id"])
                    /\ LowerNames(SelectSeq(new, LAMBDA r : ~IsSynthNode(r)))
                           = LowerNames(old)
                    /\ \A k \in DOMAIN new : IsPromoted(new[k]) => new[k] \in AllNodes(old)
                    /\ ~raised =>
                           \A k \in MissingTopLevel(NodeAt(SubRows(orig_report), p)["group"]) :
                               CarriedBy(new, accounts[k]["Id"]) = 1

\* C23 witness: a merge skipped the branch of an account whose row is elsewhere
\* in the report, and inserted another account into the same list
C23_Witness ==
    /\ merges = 1
    /\ ~raised
    /\ \E p \in WalkedTargetPaths(SubRows(orig_report)) :
           /\ AmbiguousAccounts(p) # {}
           /\ Len(SubRows(NodeAt(SubRows(report_data), p)))
                  > Len(SubRows(NodeAt(SubRows(orig_report), p)))
           /\ \E i \in AmbiguousAccounts(p) :
                  \E j \in ChildAccounts(accounts[i]["Id"]) :
                      accounts[j]["Id"] \notin IdsIn(orig_report)

\* C24: the merge terminates by returning for every finite tree and account
\* list, lists with a cycle of parent references among them: once the merge has
\* been called, its recursive injection has returned and was not left by an
\* exception of the interpreter's recursion limit.
C24_CyclicMergeReturns == merges >= 1 => raised = FALSE

\* the nodes of a report that carry the id, as paths
Carriers(report, id) ==
    {p \in NodePaths(SubRows(report)) : id \in NodeIds(NodeAt(SubRows(report), p))}

\* C25: after one merge that returned, every account id that was absent from
\* the original tree is carried by at most one node of the merged tree, the
\* ids of the original tree being carried by one node each.
C25_NoDuplicateInjection ==
    (/\ merges = 1
     /\ ~raised
     /\ \A id \in IdsIn(orig_report) : Cardinality(Carriers(orig_report, id)) = 1)
    => \A i \in DOMAIN accounts :
           accounts[i]["Id"] \notin IdsIn(orig_report)
           => Cardinality(Carriers(report_data, accounts[i]["Id"])) <= 1

\* C26: when every account id is already carried by the tree, a merge that
\* returned has left the tree as it was (no node inserted, no Data row promoted,
\* no summary added), and with it the flattened output.
C26_NoOpWhenNothingMissing ==
    (/\ merges = 1
     /\ ~raised
     /\ accounts # <<>>
     /\ \A i \in DOMAIN accounts : accounts[i]["Id"] \in IdsIn(orig_report))
    => /\ report_data = orig_report
       /\ FlatAll(report_data) = FlatAll(orig_report)

\* the children of a list that a merge did not synthesize, in their order
FetchedKids(kids) == SelectSeq(kids, LAMBDA r : ~IsSynthNode(r))

\* C27: a children list the merge inserted into, whose children were
\* non-decreasing by display name (case ignored) before the merge, is
\* non-decreasing after it; so is the children list of every synthesized and of
\* every promoted section (the list the merge builds from nothing). The accounts
\* are processed in the order of their names compared case-sensitively, "B"
\* before "a".
C27_SortednessPreserved ==
    merges >= 1 =>
        \A n \in AllNodes(SubRows(report_data)) :
            (/\ \E k \in DOMAIN SubRows(n) : IsSynthNode(SubRows(n)[k])
             /\ SortedNoCase(FetchedKids(SubRows(n))))
            => SortedNoCase(SubRows(n))

\* C27 witness: "B" was inserted first and "a" second, in a sorted list that
\* held a fetched child, and "a" stands before "B"
C27_Witness ==
    /\ merges = 1
    /\ \E n \in AllNodes(SubRows(report_data)) :
           /\ FetchedKids(SubRows(n)) # <<>>
           /\ SortedNoCase(FetchedKids(SubRows(n)))
           /\ \E k \in 1..(Len(SubRows(n)) - 1) :
                  /\ IsSynthNode(SubRows(n)[k]) /\ IsSynthNode(SubRows(n)[k + 1])
                  /\ StrGT(DisplayName(SubRows(n)[k]), DisplayName(SubRows(n)[k + 1]))

\* C28: for a tree that satisfies the Data/Section invariant, the flattening
\* with row_max = "T" returns the rows and headers that the flattening of all
\* rows returns, under the same column limit.
C28_AtTotalEqualsAll ==
    (parsed /\ row_max = "T" /\ DataSectionInvariant(report_data)) =>
        /\ out_rows = parse_report_to_rows(report_data, "*", col_max).rows
        /\ out_headers = parse_report_to_rows(report_data, "*", col_max).headers

\* C28 witness: a "T" flattening of a well-formed tree with a total Data row, a
\* total summary and a section whose header is a total went on after each of
\* them
C28_Witness ==
    /\ parsed /\ row_max = "T"
    /\ DataSectionInvariant(report_data)
    /\ \E n \in AllNodes(SubRows(report_data)) : IsTotalRow(n)
    /\ \E n \in AllNodes(SubRows(report_data)) :
           /\ Truthy(HeaderCols(n)) /\ ContainsTotal(CellValue(HeaderCols(n)[1]))
           /\ SubRows(n) # <<>>
    /\ \E i \in 1..(Len(out_rows) - 2) :
           /\ IsTotal(out_rows[i])
           /\ ~IsTotal(out_rows[i + 1])
           /\ IsTotal(out_rows[Len(out_rows)])

\* the positions in the history of the calls of this operation
CallsOf(op) == {i \in DOMAIN pr_calls : pr_calls[i].op = op}

\* the positions of the calls of this operation that did their work
DoneCallsOf(op) == {i \in CallsOf(op) : pr_calls[i].outcome = "ok"}

\* C29: in a run of process_report, the destination tab is cleared and written
\* only after a report was fetched and flattened to a non-empty row list; a
\* clear precedes every write; the processed date is updated only after
\* write_data reported success; a run that has ended has returned a result with
\* status "success" or "error"; and with status "error" the processed date was
\* not updated.
C29_PipelineOrder ==
    /\ \A i \in CallsOf("clear_tab_data") \cup CallsOf("write_data") :
           /\ \E j \in DoneCallsOf("get_report") : j < i
           /\ Truthy(report_data) /\ parsed /\ out_rows # <<>>
           /\ out_rows = parse_report_to_rows(report_data, row_max, col_max).rows
    /\ \A i \in CallsOf("write_data") : \E j \in CallsOf("clear_tab_data") : j < i
    /\ \A i \in CallsOf("update_processed_date") :
           \E j \in DoneCallsOf("write_data") : j < i
    /\ pr_pc \in {"duplicate", "fetch", "parse", "clear", "write", "update", "done"}
    /\ pr_pc = "done" <=> pr_result.status \in {"success", "error"}
    /\ pr_pc # "done" => pr_result.status = "none"
    /\ pr_result.status = "error" => DoneCallsOf("update_processed_date") = {}

\* C29 witness: a run cleared the tab, wrote the rows, updated the processed
\* date and returned "success" with the number of rows written
C29_Witness ==
    /\ pr_pc = "done"
    /\ pr_result.status = "success" /\ pr_result.rows >= 1
    /\ DoneCallsOf("clear_tab_data") # {}
    /\ DoneCallsOf("write_data") # {}
    /\ DoneCallsOf("update_processed_date") # {}

\* HTTP requests the call has sent
Sent == Cardinality({i \in DOMAIN rq_log : rq_log[i] \in Responses})

\* positions of a failed refresh that answered a 401
Failed401 ==
    {i \in DOMAIN rq_log : i > 1 /\ rq_log[i] = "refresh_failed" /\ rq_log[i - 1] = "401"}

\* no valid token could be ensured
NoValidToken == rq_log # <<>> /\ rq_log[1] \in {"no_token", "refresh_failed"}

\* the state part of C30
BoundedRetry ==
    /\ Sent <= rq_retries
    /\ rq_pc = "send" => rq_attempt = Sent /\ Sent < rq_retries
    /\ \A i \in DOMAIN rq_log :
           (i > 1 /\ rq_log[i] = "refresh_ok" /\ rq_pc # "refresh")
           => rq_attempt >= Cardinality({j \in 1..i : rq_log[j] \in Responses})
    /\ rq_result = "json" =>
           /\ rq_pc = "done"
           /\ rq_log[Len(rq_log)] = "200"
           /\ \A j \in 1..(Len(rq_log) - 1) : rq_log[j] # "200"
    /\ Failed401 # {} =>
           /\ Failed401 = {Len(rq_log)}
           /\ rq_pc = "done" /\ rq_result = "None"
    /\ NoValidToken =>
           /\ Len(rq_log) = 1
           /\ rq_pc = "done" /\ rq_result = "None"
    /\ (rq_pc = "done" /\ rq_result = "None" /\ ~NoValidToken /\ Failed401 = {}) =>
           /\ Sent = rq_retries
           /\ rq_log[Len(rq_log)] # "200"
    /\ rq_pc = "done" <=> rq_result \in {"json", "None"}

====
